---- MODULE Spec2Model ----
(***************************************************************************)
(* Model of the Scaleway dynamic inventory (latest revision of main.go,    *)
(* src/unnamed/part_000): one process run from start to exit.              *)
(*                                                                         *)
(* Go strings are TLA+ strings; Len, \o and SubSeq act on them character   *)
(* by character.  The Scaleway API (github.com/scaleway/go-scaleway) is an *)
(* external collaborator: each call either fails or answers with records   *)
(* of ServerPool, chosen nondeterministically; a lookup by name answers    *)
(* with a record of that name.                                             *)
(***************************************************************************)
EXTENDS Integers, Sequences, FiniteSets, TLC

VARIABLES
    osArgs,        \* os.Args (osArgs[1] is the program name, Go's os.Args[0])
    envOrga,       \* os.Getenv("SCALEWAY_ORGANIZATION")
    envToken,      \* os.Getenv("SCALEWAY_TOKEN")
    pc,            \* position of the run in main / getServers / getServer
    osArg1,        \* main's local osArg1
    serverName,    \* getServer's parameter
    servers,       \* getServers' local: the list the API returned
    serverProxy0,  \* getServer's local serverProxy0
    server,        \* getServer's local server
    result,        \* the map under construction (getServers / getServer)
    calls,         \* Scaleway API calls issued so far, in order
    stdout,        \* what fmt.Println wrote, in order
    stderr,        \* what the logger l (os.Stderr) and the runtime wrote
    exitCode       \* -1 while running, then the process exit code

vars == <<osArgs, envOrga, envToken, pc, osArg1, serverName, servers,
          serverProxy0, server, result, calls, stdout, stderr, exitCode>>

-----------------------------------------------------------------------------
(* Bounds *)

\* Longest server list the directory answers --list with.
MaxServers == 3

-----------------------------------------------------------------------------
(* Strings *)

Digits == {"0", "1", "2", "3", "4", "5", "6", "7", "8", "9"}

\* s[i-1:i] in Go: the i-th character (1-based) as a string.
Char(s, i) == SubSeq(s, i, i)

\* strings.Contains(s, sub)
Contains(s, sub) ==
    \E i \in 1..(Len(s) - Len(sub) + 1) : SubSeq(s, i, i + Len(sub) - 1) = sub

\* Number of (possibly overlapping) occurrences of sub in s.
Occurrences(s, sub) ==
    Cardinality({i \in 1..(Len(s) - Len(sub) + 1) :
                    SubSeq(s, i, i + Len(sub) - 1) = sub})

\* strings.TrimSpace(s), with the blank as the only white space of the inputs.
RECURSIVE TrimSpace(_)
TrimSpace(s) ==
    IF Len(s) = 0 THEN s
    ELSE IF Char(s, 1) = " " THEN TrimSpace(SubSeq(s, 2, Len(s)))
    ELSE IF Char(s, Len(s)) = " " THEN TrimSpace(SubSeq(s, 1, Len(s) - 1))
    ELSE s

\* strconv.Atoi(s) returns a nil error: an optional sign, then one or more
\* decimal digits.
AtoiOk(s) ==
    LET body == IF Len(s) >= 1 /\ Char(s, 1) \in {"+", "-"}
                THEN SubSeq(s, 2, Len(s)) ELSE s
    IN  /\ Len(body) >= 1
        /\ \A i \in 1..Len(body) : Char(body, i) \in Digits

\* The literal sub occurs in s at position i.
LitAt(s, i, sub) ==
    /\ i + Len(sub) - 1 <= Len(s)
    /\ SubSeq(s, i, i + Len(sub) - 1) = sub

\* MatchString for a pattern that accepts any name holding a digit.
MatchString_AnyDigit(s) == \E i \in 1..Len(s) : Char(s, i) \in Digits

\* allowedServerName.MatchString(s), for the pattern
\*     proxy[0-9]|master[[0-9]|worker+[0-9]
\* Unanchored: a match may start at any position.  The class [[0-9] holds the
\* character "[" and the digits; r+ is one or more "r".
MatchString(s) ==
    \E i \in 1..Len(s) :
        \/ /\ LitAt(s, i, "proxy")
           /\ i + 5 <= Len(s)
           /\ Char(s, i + 5) \in Digits
        \/ /\ LitAt(s, i, "master")
           /\ i + 6 <= Len(s)
           /\ Char(s, i + 6) \in Digits \cup {"["}
        \/ /\ LitAt(s, i, "worke")
           /\ \E k \in 1..Len(s) :
                /\ i + 5 + k <= Len(s)
                /\ \A j \in 1..k : Char(s, i + 4 + j) = "r"
                /\ Char(s, i + 5 + k) \in Digits

MSG_PREFIX == "scw-inv:"

ALLOWED_PATTERN == "proxy[0-9]|master[[0-9]|worker+[0-9]"

BASE_SSH_ARGS ==
    "-q -C -o ControlMaster=auto -o ControlPersist=5m -o ForwardAgent=yes -o StrictHostKeyChecking=no -o UserKnownHostsFile=/dev/null"

\* The clause getServer appends for a host reached through the gateway.
ProxyCommandClause(ip) ==
    " -o ProxyCommand=\"ssh -W %h:%p -q root@" \o ip \o " -i ~/.ssh/scaleway.pem\""

-----------------------------------------------------------------------------
(* Go maps *)

EmptyMap == << >>

\* m[k] = v
Put(m, k, v) == [x \in (DOMAIN m) \cup {k} |-> IF x = k THEN v ELSE m[x]]

Range(seq) == {seq[i] : i \in 1..Len(seq)}

-----------------------------------------------------------------------------
(* The directory *)

Srv(id, name, pub, priv, tags) ==
    [Identifier |-> id, Name |-> name, PublicIP |-> pub, PrivateIP |-> priv,
     Tags |-> tags]

\* A nil *types.ScalewayServer.
NilServer == Srv("", "<nil>", "", "", << >>)

\* The servers the directory may know.
ServerPool ==
    { Srv("id-a", "proxy0",        "51.15.0.10", "10.1.0.10", <<"proxy", "front">>),
      Srv("id-b", "proxy7",        "",           "10.1.0.17", <<"proxy">>),
      Srv("id-c", "master3",       "51.15.0.23", "10.1.0.23", <<"master", "front">>),
      Srv("id-d", "worker2",       "",           "10.1.0.32", << >>),
      Srv("id-e", "workerX",       "51.15.0.40", "10.1.0.40", <<"worker">>),
      Srv("id-f", "unclassified9", "51.15.0.49", "10.1.0.49", <<"misc", "master">>),
      Srv("id-g", "proxyworker3",  "51.15.0.33", "10.1.0.33", <<"worker", "worker">>),
      Srv("id-h", "proxy0",        "",           "10.1.0.11", <<"proxy">>),
      Srv("id-i", "master[",       "51.15.0.60", "10.1.0.60", <<"master">>),
      Srv("id-j", "worker10",      "51.15.0.30", "10.1.0.30", << >>) }

\* The answers GetServers may give: the lists of at most MaxServers servers.
ServerLists == UNION {[1..n -> ServerPool] : n \in 0..MaxServers}

\* The host names a caller may pass to --host.
HostNames ==
    {"proxy0", "proxy7", "master3", "worker2", "workerX", "unclassified9",
     "proxyworker3", "p1", "master[", "worker10", "ab", ""}

\* The command lines.
ArgVectors ==
    {<<"scw-inv">>, <<"scw-inv", "--list">>, <<"scw-inv", "--host">>,
     <<"scw-inv", "--help">>, <<"scw-inv", "">>,
     <<"scw-inv", "--list", "proxy0">>}
    \cup {<<"scw-inv", "--host", n>> : n \in HostNames}

EnvValues == {"", " ", "secret"}

-----------------------------------------------------------------------------
(* Process *)

\* The value of a local variable that is not declared yet.
Unset == "<unset>"

Init ==
    /\ osArgs \in ArgVectors
    /\ envOrga \in EnvValues
    /\ envToken \in EnvValues
    /\ pc = "initScwApi"
    /\ osArg1 = Unset
    /\ serverName = Unset
    /\ servers = << >>
    /\ serverProxy0 = NilServer
    /\ server = NilServer
    /\ result = EmptyMap
    /\ calls = << >>
    /\ stdout = << >>
    /\ stderr = << >>
    /\ exitCode = -1

\* Exit reporting the failure and then ending as a success.
Exit_CodeLost(msg, code) ==
    /\ stderr' = Append(stderr, msg)
    /\ exitCode' = 0
    /\ pc' = "exited"

\* l.Printf(msg) then os.Exit(code).
Exit(msg, code) ==
    /\ stderr' = Append(stderr, msg)
    /\ exitCode' = code
    /\ pc' = "exited"

\* initScwApi: the two required environment variables, then the API object.
InitScwApi ==
    /\ pc = "initScwApi"
    /\ UNCHANGED <<osArgs, envOrga, envToken, osArg1, serverName, servers,
                   serverProxy0, server, result, calls, stdout>>
    /\ IF TrimSpace(TrimSpace(envOrga)) = ""
       THEN Exit(MSG_PREFIX \o " required SCALEWAY_ORGANIZATION env var is not set", 1)
       ELSE IF TrimSpace(TrimSpace(envToken)) = ""
       THEN Exit(MSG_PREFIX \o " required SCALEWAY_TOKEN env var is not set", 1)
       ELSE \/ Exit(MSG_PREFIX \o " failed to create scaleway API instance: error", 1)
            \/ /\ pc' = "main"
               /\ UNCHANGED <<stderr, exitCode>>

\* main, lines 47-72: the default value of osArg1 and the switch on it.
MainDispatch ==
    /\ pc = "main"
    /\ osArg1' = IF Len(osArgs) > 1 THEN osArgs[2] ELSE "--list"
    /\ UNCHANGED <<osArgs, envOrga, envToken, servers, serverProxy0, server,
                   result, calls, stdout>>
    /\ CASE osArg1' = "--list" ->
              /\ pc' = "getServers"
              /\ UNCHANGED <<serverName, stderr, exitCode>>
         [] osArg1' = "--host" ->
              IF Len(osArgs) < 2
              THEN /\ Exit(MSG_PREFIX \o " hostname is required (--host <hostname>)", 1)
                   /\ UNCHANGED serverName
              ELSE IF Len(osArgs) < 3
              \* os.Args[2] does not exist: the Go runtime panics, exit status 2.
              THEN /\ Exit("panic: runtime error: index out of range [2] with length 2", 2)
                   /\ UNCHANGED serverName
              ELSE /\ serverName' = osArgs[3]
                   /\ pc' = "getServer"
                   /\ UNCHANGED <<stderr, exitCode>>
         [] OTHER ->
              /\ Exit(MSG_PREFIX \o " usage: [--host|--list]", 1)
              /\ UNCHANGED serverName

Call(op, arg) == [op |-> op, arg |-> arg]

\* AddTags stopping after the server's first tag.
AddTags_FirstTagOnly(res, name, tags) ==
    IF tags = << >> THEN res
    ELSE LET tag == Head(tags)
             old == IF tag \in DOMAIN res THEN res[tag] ELSE << >>
         IN  Put(res, tag, Append(old, name))

\* getServers' loop body for one server's tags, lines 135-140.
RECURSIVE AddTags(_, _, _)
AddTags(res, name, tags) ==
    IF tags = << >> THEN res
    ELSE LET tag == Head(tags)
             old == IF tag \in DOMAIN res THEN res[tag] ELSE << >>
         IN  AddTags(Put(res, tag, Append(old, name)), name, Tail(tags))

\* Skipped without the name filter (as in the first revision of getServers).
Skipped_Never(s) == FALSE

\* Whether getServers' loop skips the server, line 130.
Skipped(s) == ~MatchString(s.Name)

\* getServers' loop, lines 127-141.
RECURSIVE GroupServers(_, _)
GroupServers(res, list) ==
    IF list = << >> THEN res
    ELSE LET s == Head(list)
         IN  GroupServers(IF Skipped(s) THEN res ELSE AddTags(res, s.Name, s.Tags),
                          Tail(list))

\* getServers: the API call, then the grouping.
GetServers ==
    /\ pc = "getServers"
    /\ calls' = Append(calls, Call("GetServers", ""))
    /\ UNCHANGED <<osArgs, envOrga, envToken, osArg1, serverName, serverProxy0,
                   server, stdout>>
    /\ \/ /\ Exit(MSG_PREFIX \o " failed to get servers: error", 1)
          /\ UNCHANGED <<servers, result>>
       \/ \E list \in ServerLists :
            /\ servers' = list
            /\ result' = GroupServers(EmptyMap, list)
            /\ pc' = "marshal"
            /\ UNCHANGED <<stderr, exitCode>>

\* NameRefused without the name check.
NameRefused_Never(name) == FALSE

\* Whether getServer refuses the requested name, line 170.
NameRefused(name) == ~MatchString(name)

\* getServer, lines 167-183: the name check and the generic variables.
GetServerValidate ==
    /\ pc = "getServer"
    /\ UNCHANGED <<osArgs, envOrga, envToken, osArg1, serverName, servers,
                   serverProxy0, server, calls, stdout>>
    /\ IF NameRefused(serverName)
       THEN /\ Exit(MSG_PREFIX \o " server name allowed regexp: " \o ALLOWED_PATTERN, 1)
            /\ UNCHANGED result
       ELSE /\ result' = Put(Put(EmptyMap, "ansible_python_interpreter", "/usr/bin/python3"),
                             "ansible_user", "root")
            /\ pc' = "lookupProxy0"
            /\ UNCHANGED <<stderr, exitCode>>

\* getScWServerByName fails: GetServerID fails, or GetServer fails on the id.
LookupFails(name) ==
    \/ /\ calls' = Append(calls, Call("GetServerID", name))
       /\ Exit(MSG_PREFIX \o " failed to get server id with name: error", 1)
    \/ \E s \in ServerPool :
         /\ s.Name = name
         /\ calls' = calls \o <<Call("GetServerID", name), Call("GetServer", s.Identifier)>>
         /\ Exit(MSG_PREFIX \o " failed to get server with id: error", 1)

\* getScWServerByName answers with the record s.
LookupFinds(name, s) ==
    /\ s \in ServerPool
    /\ s.Name = name
    /\ calls' = calls \o <<Call("GetServerID", name), Call("GetServer", s.Identifier)>>

\* The name of the gateway server, line 186.
GatewayName == "proxy0"

\* IsGateway by class word instead of by name.
IsGateway_AnyProxy(name) == Contains(name, "proxy")

\* IsGateway never taking the gateway branch: the target is looked up again.
IsGateway_Never(name) == FALSE

\* Whether the target is the gateway itself, line 192.
IsGateway(name) == name = "proxy0"

\* getServer, lines 185-194: the gateway lookup, the baseline SSH options
\* and the branch taken when the target is the gateway itself.
GetServerGateway ==
    /\ pc = "lookupProxy0"
    /\ UNCHANGED <<osArgs, envOrga, envToken, osArg1, serverName, servers, stdout>>
    /\ \/ /\ LookupFails(GatewayName)
          /\ UNCHANGED <<serverProxy0, server, result>>
       \/ \E s \in ServerPool :
            /\ LookupFinds(GatewayName, s)
            /\ serverProxy0' = s
            /\ UNCHANGED <<stderr, exitCode>>
            /\ LET res == Put(result, "ansible_ssh_common_args", BASE_SSH_ARGS)
               IN  IF IsGateway(serverName)
                   THEN /\ server' = s
                        /\ result' = Put(res, "proxy_inet", "True")
                        /\ pc' = "derive"
                   ELSE /\ result' = res
                        /\ pc' = "lookupTarget"
                        /\ UNCHANGED server

\* RelayAddress taking the target's address.
RelayAddress_Target(gateway, target) == target.PublicIP

\* The address the ProxyCommand clause relays through, line 197.
RelayAddress(gateway, target) == gateway.PublicIP

\* getServer, lines 196-197: the target lookup and the ProxyCommand clause.
GetServerTarget ==
    /\ pc = "lookupTarget"
    /\ UNCHANGED <<osArgs, envOrga, envToken, osArg1, serverName, servers,
                   serverProxy0, stdout>>
    /\ \/ /\ LookupFails(serverName)
          /\ UNCHANGED <<server, result>>
       \/ \E s \in ServerPool :
            /\ LookupFinds(serverName, s)
            /\ server' = s
            /\ result' = Put(result, "ansible_ssh_common_args",
                             result["ansible_ssh_common_args"]
                                 \o ProxyCommandClause(RelayAddress(serverProxy0, s)))
            /\ pc' = "derive"
            /\ UNCHANGED <<stderr, exitCode>>

\* AnsibleHost with the two addresses exchanged.
AnsibleHost_PrivateFirst(s) == IF s.PrivateIP # "" THEN s.PrivateIP ELSE s.PublicIP

\* Lines 200-205: the public address when it is not empty, else the private.
AnsibleHost(s) == IF s.PublicIP # "" THEN s.PublicIP ELSE s.PrivateIP

\* WithVpnIp taking the name without its last character as the suffix (as in
\* the first revision of getServer).
WithVpnIp_LeadingPart(res, name) ==
    LET lastDigit == SubSeq(name, 1, Len(name) - 1)
    IN  IF AtoiOk(lastDigit)
        THEN CASE Contains(name, "proxy") ->
                      Put(res, "vpn_ip", "192.168.66.1" \o lastDigit)
               [] Contains(name, "master") ->
                      Put(res, "vpn_ip", "192.168.66.2" \o lastDigit)
               [] Contains(name, "worker") ->
                      Put(res, "vpn_ip", "192.168.66.3" \o lastDigit)
               [] OTHER -> res
        ELSE res

\* Lines 207-224: the map with vpn_ip added when the name ends in a digit
\* and holds a class word.
WithVpnIp(res, name) ==
    LET digitPos == Len(name) - 1
    IN  IF digitPos > 1
        THEN LET lastDigit == SubSeq(name, digitPos + 1, Len(name))
             IN  IF AtoiOk(lastDigit)
                 THEN CASE Contains(name, "proxy") ->
                               Put(res, "vpn_ip", "192.168.66.1" \o lastDigit)
                        [] Contains(name, "master") ->
                               Put(res, "vpn_ip", "192.168.66.2" \o lastDigit)
                        [] Contains(name, "worker") ->
                               Put(res, "vpn_ip", "192.168.66.3" \o lastDigit)
                        [] OTHER -> res
                 ELSE res
        ELSE res

\* getServer, lines 200-225: ansible_host and vpn_ip.
GetServerDerive ==
    /\ pc = "derive"
    /\ result' = WithVpnIp(Put(result, "ansible_host", AnsibleHost(server)), server.Name)
    /\ pc' = "marshal"
    /\ UNCHANGED <<osArgs, envOrga, envToken, osArg1, serverName, servers,
                   serverProxy0, server, calls, stdout, stderr, exitCode>>

\* main, lines 58/66 and 74-80: json.Marshal, then either the error branch
\* (lines 75-78) or the document printed and main returning.  encoding/json
\* is outside the repository: whether Marshal returns an error is left open,
\* and the document is kept as the map it encodes.
MarshalAndPrint ==
    /\ pc = "marshal"
    /\ UNCHANGED <<osArgs, envOrga, envToken, osArg1, serverName, servers,
                   serverProxy0, server, result, calls>>
    /\ \/ /\ Exit(MSG_PREFIX \o " failed to marshal the dynamic inventory: error", 1)
          /\ UNCHANGED stdout
       \/ /\ stdout' = Append(stdout, result)
          /\ exitCode' = 0
          /\ pc' = "exited"
          /\ UNCHANGED stderr

Next ==
    \/ InitScwApi
    \/ MainDispatch
    \/ GetServers
    \/ GetServerValidate
    \/ GetServerGateway
    \/ GetServerTarget
    \/ GetServerDerive
    \/ MarshalAndPrint

Spec == Init /\ [][Next]_vars

-----------------------------------------------------------------------------
(* Properties *)

\* main has taken its switch (initScwApi returned).
Dispatched == osArg1 # Unset

\* getServers has returned its map.
ListDone ==
    /\ osArg1 = "--list"
    /\ pc = "marshal" \/ (pc = "exited" /\ exitCode = 0)

\* getServer has returned its map.
HostDone ==
    /\ osArg1 = "--host"
    /\ pc = "marshal" \/ (pc = "exited" /\ exitCode = 0)

\* getServer was called with a name.
HostRequested == osArg1 = "--host" /\ serverName # Unset

\* The servers of the list whose name matches the pattern and that carry tag t.
Carriers(t) ==
    {i \in 1..Len(servers) :
        MatchString(servers[i].Name) /\ t \in Range(servers[i].Tags)}

\* C1: in the --list result, the name of every server matching the pattern is
\* in the list of each of its tags; a name is in a tag's list only if a
\* matching server of that name carries the tag; and a tag is a key only if
\* some matching server carries it.
C1_GroupedUnderOwnTags ==
    ListDone =>
        /\ \A i \in 1..Len(servers) :
             MatchString(servers[i].Name) =>
                \A t \in Range(servers[i].Tags) :
                    /\ t \in DOMAIN result
                    /\ servers[i].Name \in Range(result[t])
        /\ \A t \in DOMAIN result :
             /\ Carriers(t) # {}
             /\ \A n \in Range(result[t]) :
                    \E i \in Carriers(t) : servers[i].Name = n

\* C1 witness: a list with a matching server of two tags, a matching server
\* of no tag and another matching server has been grouped and printed.
C1_Witness ==
    /\ ListDone
    /\ pc = "exited"
    /\ Len(servers) = 3
    /\ \E i, j, k \in 1..3 :
         /\ servers[i].Name = "master3"
         /\ servers[j].Name = "worker2"
         /\ servers[k].Name = "proxy7"
    /\ DOMAIN result = {"master", "front", "proxy"}

\* C2: a server whose name does not match the pattern is in no list of the
\* --list result, and a tag carried only by such servers is not a key.
C2_UnmatchedNeverGrouped ==
    ListDone =>
        /\ \A i \in 1..Len(servers) :
             ~MatchString(servers[i].Name) =>
                \A t \in DOMAIN result : servers[i].Name \notin Range(result[t])
        /\ \A i \in 1..Len(servers) : \A t \in Range(servers[i].Tags) :
             (\A j \in 1..Len(servers) :
                 t \in Range(servers[j].Tags) => ~MatchString(servers[j].Name))
                 => t \notin DOMAIN result

\* C2 witness: a list holding tagged servers that do not match, beside one
\* that does, has been grouped and printed.
C2_Witness ==
    /\ ListDone
    /\ pc = "exited"
    /\ \E i, j, k \in 1..Len(servers) :
         /\ servers[i].Name = "unclassified9"
         /\ servers[j].Name = "workerX"
         /\ servers[k].Name = "master3"
    /\ "misc" \notin DOMAIN result
    /\ "master" \in DOMAIN result

InvalidNameMessage == MSG_PREFIX \o " server name allowed regexp: " \o ALLOWED_PATTERN

\* C3: when getServer is called with a name that fails the pattern, no
\* directory call is ever issued and the run ends in the invalid-name failure.
C3_ValidationBeforeDirectory ==
    (HostRequested /\ ~MatchString(serverName)) =>
        /\ calls = << >>
        /\ pc \in {"getServer", "exited"}
        /\ pc = "exited" =>
              /\ exitCode = 1
              /\ stderr = <<InvalidNameMessage>>
              /\ stdout = << >>

\* C3 witness: a run asked for a refused name has ended.
C3_Witness ==
    /\ HostRequested
    /\ serverName = "workerX"
    /\ pc = "exited"

\* C4: the host variables of "proxy0" have proxy_inet = "True" and SSH
\* options without a ProxyCommand; those of any other name have no proxy_inet.
C4_GatewayIsDirect ==
    HostDone =>
        IF serverName = "proxy0"
        THEN /\ "proxy_inet" \in DOMAIN result
             /\ result["proxy_inet"] = "True"
             /\ ~Contains(result["ansible_ssh_common_args"], "ProxyCommand")
        ELSE "proxy_inet" \notin DOMAIN result

\* C4 witness: "proxy0" has been resolved and printed.
C4_Witness ==
    /\ HostDone
    /\ serverName = "proxy0"
    /\ pc = "exited"
    /\ Len(stdout) = 1
    /\ stdout[1]["proxy_inet"] = "True"

\* C5: the SSH options of a host other than "proxy0" are the baseline
\* followed by exactly one ProxyCommand clause, whose address is the public
\* address of the gateway record.
C5_RelayThroughGateway ==
    (HostDone /\ serverName # "proxy0") =>
        LET args == result["ansible_ssh_common_args"]
            clause == SubSeq(args, Len(BASE_SSH_ARGS) + 1, Len(args))
        IN  /\ Len(args) > Len(BASE_SSH_ARGS)
            /\ SubSeq(args, 1, Len(BASE_SSH_ARGS)) = BASE_SSH_ARGS
            /\ Occurrences(args, "ProxyCommand") = 1
            /\ Occurrences(args, "root@") = 1
            /\ clause = " -o ProxyCommand=\"ssh -W %h:%p -q root@"
                            \o serverProxy0.PublicIP \o " -i ~/.ssh/scaleway.pem\""

\* C5 witness: a host whose public address differs from the gateway's has
\* been resolved.
C5_Witness ==
    /\ HostDone
    /\ serverName = "master3"
    /\ server.PublicIP = "51.15.0.23"
    /\ serverProxy0.PublicIP = "51.15.0.10"

\* C6: ansible_host is always set; it is the target's public address when
\* that is not empty, else its private address; for "proxy0" the target is
\* the gateway record.
C6_PublicElsePrivate ==
    HostDone =>
        /\ "ansible_host" \in DOMAIN result
        /\ server.PublicIP # "" => result["ansible_host"] = server.PublicIP
        /\ server.PublicIP = "" => result["ansible_host"] = server.PrivateIP
        /\ serverName = "proxy0" => server = serverProxy0

\* C6 witness: a host without a public address has been resolved to its
\* private address.
C6_Witness ==
    /\ HostDone
    /\ server.PublicIP = ""
    /\ server.PrivateIP # ""
    /\ result["ansible_host"] = server.PrivateIP

\* Server names the VPN-IP derivation is also tried on.
NameSamples ==
    {"proxy7", "master3", "worker2", "workerX", "unclassified9", "ab", "a7",
     "p1", "7", "", "proxyworker3", "workermaster5", "masterproxy4",
     "worker10", "master[", "3proxy", "proxy+"}

\* The vpn_ip C7 states for a name: <<>> for none.
ExpectedVpnIp(name) ==
    LET tail == IF Len(name) = 0 THEN "" ELSE SubSeq(name, Len(name), Len(name))
    IN  IF tail \in Digits
        THEN IF Contains(name, "proxy") THEN <<"192.168.66.1" \o tail>>
             ELSE IF Contains(name, "master") THEN <<"192.168.66.2" \o tail>>
             ELSE IF Contains(name, "worker") THEN <<"192.168.66.3" \o tail>>
             ELSE << >>
        ELSE << >>

\* Map m has vpn_ip as expected holds it (or has none).
VpnIpIs(m, expected) ==
    IF expected = << >> THEN "vpn_ip" \notin DOMAIN m
    ELSE "vpn_ip" \in DOMAIN m /\ m["vpn_ip"] = expected[1]

\* C7: vpn_ip is 192.168.66.<c><tail>, tail the last character of the server
\* name when it is a digit, c = 1 for a name holding "proxy", else 2 for
\* "master", else 3 for "worker"; in every other case vpn_ip is absent.
C7_VpnIpFromTail ==
    /\ HostDone /\ pc # "marshal" => VpnIpIs(stdout[1], ExpectedVpnIp(server.Name))
    /\ pc = "marshal" /\ osArg1 = "--host" => VpnIpIs(result, ExpectedVpnIp(server.Name))
    /\ pc = "derive" =>
         \A n \in NameSamples :
            VpnIpIs(WithVpnIp(result, n), ExpectedVpnIp(n))

\* C7 witness: a name holding both "proxy" and "worker" got the .1 prefix.
C7_Witness ==
    /\ HostDone
    /\ server.Name = "proxyworker3"
    /\ "vpn_ip" \in DOMAIN result
    /\ result["vpn_ip"] = "192.168.66.13"

\* The name holds none of the class words.
Unclassified(name) ==
    /\ ~Contains(name, "proxy")
    /\ ~Contains(name, "master")
    /\ ~Contains(name, "worker")

GenericKeys ==
    {"ansible_python_interpreter", "ansible_user", "ansible_ssh_common_args",
     "ansible_host"}

\* C8 as stated: asking for a name that holds no class word never ends in a
\* failure; it prints a host entry without vpn_ip and with the other fields.
C8_UnclassifiedResolved ==
    (osArg1 = "--host" /\ Len(osArgs) >= 3 /\ Unclassified(osArgs[3])
        /\ osArgs[3] = "unclassified9" /\ pc = "exited") =>
        /\ exitCode = 0
        /\ Len(stdout) = 1
        /\ "vpn_ip" \notin DOMAIN stdout[1]
        /\ GenericKeys \subseteq DOMAIN stdout[1]

\* C8 amended: asking for a name that holds no class word ends in the
\* invalid-name failure, with no directory call and nothing printed; and
\* every host entry that is printed has the four generic keys, the three
\* fixed ones with a value that is not empty.
C8_UnclassifiedRefused ==
    /\ (HostRequested /\ Unclassified(serverName)) =>
          /\ calls = << >>
          /\ stdout = << >>
          /\ pc \in {"getServer", "exited"}
          /\ pc = "exited" => exitCode = 1 /\ stderr = <<InvalidNameMessage>>
    /\ (osArg1 = "--host" /\ Len(stdout) > 0) =>
          /\ GenericKeys \subseteq DOMAIN stdout[1]
          /\ \A k \in GenericKeys \ {"ansible_host"} : stdout[1][k] # ""

\* C8 witness: the run asked for "unclassified9" has ended.
C8_Witness ==
    /\ HostRequested
    /\ serverName = "unclassified9"
    /\ pc = "exited"
    /\ exitCode = 1

UsageMessage == MSG_PREFIX \o " usage: [--host|--list]"

\* C9 as stated: with no argument, or a first argument that is neither
\* --list nor --host, the run prints the usage message, exits with code 1,
\* calls the directory never and prints nothing.
C9_UsageWithoutMode ==
    (Dispatched /\ (Len(osArgs) < 2 \/ osArgs[2] \notin {"--list", "--host"})) =>
        /\ pc = "exited"
        /\ exitCode = 1
        /\ stderr = <<UsageMessage>>
        /\ calls = << >>
        /\ stdout = << >>

HostnameRequiredMessage == MSG_PREFIX \o " hostname is required (--host <hostname>)"

\* C10 as stated: --host without a host name prints the 'hostname is
\* required' error and exits with code 1.
C10_HostnameRequired ==
    (Dispatched /\ osArgs = <<"scw-inv", "--host">>) =>
        /\ pc = "exited"
        /\ exitCode = 1
        /\ stderr = <<HostnameRequiredMessage>>

\* The run has reported a failure.
Failed == stderr # << >>

\* The result getServers or getServer returns is complete.
ResultBuilt ==
    IF osArg1 = "--list"
    THEN result = GroupServers(EmptyMap, servers)
    ELSE /\ osArg1 = "--host"
         /\ GenericKeys \subseteq DOMAIN result
         /\ server # NilServer

\* C11: a run that reports a failure (configuration, invalid name, directory
\* list or lookup, serialization, or the runtime's) has ended with a non-zero
\* exit code and has printed nothing; a run with a blank credential or a
\* refused host name ends no other way; standard output is written at most
\* once, by a run that exits 0, and holds the complete result.
C11_FailuresPrintNothing ==
    /\ Failed =>
          /\ pc = "exited"
          /\ exitCode > 0
          /\ stdout = << >>
          /\ Len(stderr) = 1
    /\ pc = "exited" /\ exitCode # 0 => Failed
    /\ (TrimSpace(envOrga) = "" \/ TrimSpace(envToken) = "") =>
          /\ pc \in {"initScwApi", "exited"}
          /\ calls = << >>
          /\ pc = "exited" => Failed /\ exitCode = 1
    /\ stdout # << >> =>
          /\ pc = "exited"
          /\ exitCode = 0
          /\ ~Failed
          /\ stdout = <<result>>
          /\ ResultBuilt

\* C11 witness: a run has ended on a failed target lookup, after the gateway
\* was found and part of the host variables were built.
C11_Witness ==
    /\ Failed
    /\ pc = "exited"
    /\ serverName = "master3"
    /\ serverProxy0 # NilServer
    /\ server = NilServer
    /\ "ansible_ssh_common_args" \in DOMAIN result
    /\ Len(calls) = 4
    /\ stdout = << >>

\* The two calls of getScWServerByName(name) answering with record s.
LookupCalls(name, s) == <<Call("GetServerID", name), Call("GetServer", s.Identifier)>>

\* seq starts with the sequence head.
StartsWith(seq, head) ==
    /\ Len(seq) >= Len(head)
    /\ SubSeq(seq, 1, Len(head)) = head

\* C12: for a valid requested name, the first directory call is the lookup
\* of "proxy0"; the target is looked up only after the gateway lookup has
\* answered, so a failed gateway lookup ends the run with exit code 1 and no
\* target lookup; for "proxy0" the gateway record is the target and no
\* further call is issued.
C12_GatewayLookedUpFirst ==
    (HostRequested /\ MatchString(serverName)) =>
        /\ pc \notin {"getServer", "lookupProxy0"} =>
              /\ Len(calls) >= 1
              /\ calls[1] = Call("GetServerID", "proxy0")
        /\ \A i \in 1..Len(calls) :
              (calls[i].op = "GetServerID" /\ i > 1) =>
                  /\ i = 3
                  /\ calls[i].arg = serverName
                  /\ serverName # "proxy0"
                  /\ serverProxy0 # NilServer
                  /\ serverProxy0.Name = "proxy0"
                  /\ StartsWith(calls, LookupCalls("proxy0", serverProxy0))
        /\ (pc = "exited" /\ serverProxy0 = NilServer) =>
              /\ exitCode = 1
              /\ Len(calls) <= 2
              /\ \A i \in 1..Len(calls) :
                    calls[i].op = "GetServerID" => calls[i].arg = "proxy0"
        /\ (HostDone /\ serverName = "proxy0") =>
              /\ server = serverProxy0
              /\ calls = LookupCalls("proxy0", serverProxy0)
        /\ (HostDone /\ serverName # "proxy0") =>
              calls = LookupCalls("proxy0", serverProxy0)
                          \o LookupCalls(serverName, server)

\* C12 witness: a host other than the gateway has been resolved with the
\* gateway lookup followed by the target lookup.
C12_Witness ==
    /\ HostDone
    /\ serverName = "worker2"
    /\ Len(calls) = 4
    /\ calls[1].arg = "proxy0"
    /\ calls[3].arg = "worker2"

====
